---------------------------- MODULE Spec2Model ----------------------------
(***************************************************************************)
(* Model of 0xjam3z-webscanner (src/0xjam3z-webscanner/main.cpp): the      *)
(* scan pipeline driver and the text functions it is built from.           *)
(*                                                                         *)
(* A std::string is a sequence of character codes (bytes, 0..255); a file  *)
(* is the string of its bytes.                                             *)
(***************************************************************************)
EXTENDS Integers, Sequences, FiniteSets, TLC

VARIABLES
    fn,     \* the function under call in a function-level specification
    arg,    \* its argument(s)
    ret,    \* its result: <<>> before the call returns, <<value>> after
    pc,     \* main: the statement the driver is at
    cfg,    \* main: Config (input, list_mode, country_filter, no_download)
    env,    \* main: what the run's collaborators will do (tools, scanner, grabber, I/O fault)
    files,  \* main: the workspace, path -> content or Absent
    ran,    \* main: the pipeline stages executed so far, in order
    done    \* main: the side effects and the outcome (exit status, "Success" printed)

pureVars == <<fn, arg, ret>>
mainVars == <<pc, cfg, env, files, ran, done>>
vars == <<fn, arg, ret, pc, cfg, env, files, ran, done>>

(* ret is <<>> before the return and <<value>> after it.                   *)
NoRet == <<>>

---------------------------------------------------------------------------
(* Character codes the source names as literals.                           *)
Dot == 46
Colon == 58
LF == 10
Backslash == 92
Quote == 34
Slash == 47
Dash == 45
Gt == 62
Question == 63

(* <cctype> in the "C" locale.                                             *)
isspace(c) == c \in {9, 10, 11, 12, 13, 32}
isdigit(c) == c \in 48..57
tolower(c) == IF c \in 65..90 THEN c + 32 ELSE c

to_lower(s) == [i \in 1..Len(s) |-> tolower(s[i])]

(* The element of a one-element set: { e(x) : x \in {v} } names v once.     *)
Only(S) == CHOOSE x \in S : TRUE

Least(S) == CHOOSE x \in S : \A y \in S : x <= y
Greatest(S) == CHOOSE x \in S : \A y \in S : x >= y

(* size_t start: the first index (1-based) of a non-space character, or    *)
(* Len(s)+1.                                                               *)
trim_start(s, start) ==
    IF start > Len(s) \/ ~isspace(s[start]) THEN start
    ELSE Least({k \in start..Len(s) : ~isspace(s[k])} \cup {Len(s) + 1})

(* size_t end: the 1-based index of the last kept character.               *)
trim_end(s, start, end) ==
    IF end < start \/ ~isspace(s[end]) THEN end
    ELSE end - Least({n \in 0..(end - start) : ~isspace(s[end - n])} \cup {end - start + 1})

trim(s) ==
    LET start == trim_start(s, 1)
        end == trim_end(s, start, Len(s))
    IN  SubSeq(s, start, end)

(* while (iss >> token): operator>> skips white space, then reads up to    *)
(* the next white space character or the end; it fails at the end.         *)
RECURSIVE split_ws_from(_, _, _)
split_ws_from(line, i, tokens) ==
    LET first == trim_start(line, i)
        stop == Least({k \in first..Len(line) : isspace(line[k])} \cup {Len(line) + 1})
    IN  IF first > Len(line) THEN tokens
        ELSE split_ws_from(line, stop, Append(tokens, SubSeq(line, first, stop - 1)))

split_ws(line) == split_ws_from(line, 1, <<>>)

(* while (std::getline(in, part, delim)): each call reads up to the next   *)
(* delimiter, which it consumes, or to the end of input; a call that       *)
(* extracts nothing at the end of input fails, so input ending in the      *)
(* delimiter (or empty input) yields no final empty piece.                 *)
RECURSIVE getline_from(_, _, _, _)
getline_from(s, delim, i, parts) ==
    LET stop == Least({k \in i..Len(s) : s[k] = delim} \cup {Len(s) + 1})
    IN  IF i > Len(s) THEN parts
        ELSE getline_from(s, delim, stop + 1, Append(parts, SubSeq(s, i, stop - 1)))

getline_all(s, delim) == getline_from(s, delim, 1, <<>>)

(* std::stoi of a string of decimal digits.                                *)
RECURSIVE stoi(_)
stoi(part) ==
    IF part = <<>> THEN 0
    ELSE 10 * stoi(SubSeq(part, 1, Len(part) - 1)) + (part[Len(part)] - 48)

(* The body of is_ipv4's loop for one part: FALSE is the early return.     *)
ipv4_part_ok(part) ==
    /\ ~(part = <<>> \/ Len(part) > 3)
    /\ \A k \in 1..Len(part) : isdigit(part[k])
    /\ ~(stoi(part) < 0 \/ stoi(part) > 255)

is_ipv4(ip) ==
    IF \E k \in 1..Len(ip) : ip[k] = Colon
    THEN FALSE
    ELSE LET parts == getline_all(ip, Dot)
         IN  /\ \A k \in 1..Len(parts) : ipv4_part_ok(parts[k])
             /\ Len(parts) = 4

(* iss >> std::hex >> code on the 4 characters after \u: leading white     *)
(* space is skipped, a sign and a 0x prefix are accepted, digits are read   *)
(* up to the first character that is no hex digit; a failed read stores 0,  *)
(* and a minus sign negates modulo 2^32. The unsigned int is kept as its   *)
(* two 16-bit halves, hi * 65536 + lo.                                      *)
ishex(c) == c \in 48..57 \/ c \in 65..70 \/ c \in 97..102
hexval(c) == IF c \in 48..57 THEN c - 48 ELSE IF c \in 65..70 THEN c - 55 ELSE c - 87

RECURSIVE hex_digits(_, _, _)
hex_digits(hex, k, acc) ==
    IF k <= Len(hex) /\ ishex(hex[k])
    THEN hex_digits(hex, k + 1, 16 * acc + hexval(hex[k]))
    ELSE acc

read_hex(hex) ==
    LET a == trim_start(hex, 1)
        signed == a <= Len(hex) /\ hex[a] \in {43, 45}
        neg == signed /\ hex[a] = 45
        b == IF signed THEN a + 1 ELSE a
        prefixed == /\ b + 1 <= Len(hex)
                    /\ hex[b] = 48
                    /\ hex[b + 1] \in {88, 120}
        c == IF prefixed THEN b + 2 ELSE b
        value == hex_digits(hex, c, 0)
    IN  IF neg /\ value > 0
        THEN [hi |-> 65535, lo |-> 65536 - value]
        ELSE [hi |-> 0, lo |-> value]

(* One iteration of unescape_json_string's loop at index i (1-based):       *)
(* <<the characters pushed, the next index>>.                               *)
unescape_step(s, i) ==
    LET c == s[i]
    IN  IF c # Backslash \/ i + 1 > Len(s)
        THEN <<(<<c>>), i + 1>>
        ELSE LET n == s[i + 1]
             IN  CASE n = Backslash -> <<(<<Backslash>>), i + 2>>
                   [] n = Quote -> <<(<<Quote>>), i + 2>>
                   [] n = Slash -> <<(<<Slash>>), i + 2>>
                   [] n = 98 -> <<(<<8>>), i + 2>>
                   [] n = 102 -> <<(<<12>>), i + 2>>
                   [] n = 110 -> <<(<<10>>), i + 2>>
                   [] n = 114 -> <<(<<13>>), i + 2>>
                   [] n = 116 -> <<(<<9>>), i + 2>>
                   [] n = 117 ->
                        IF i + 5 <= Len(s)
                        THEN LET code == read_hex(SubSeq(s, i + 2, i + 5))
                             IN  <<(IF code.hi = 0 /\ code.lo <= 127
                                    THEN <<code.lo>> ELSE <<Question>>), i + 6>>
                        ELSE <<(<<>>), i + 2>>
                   [] OTHER -> <<(<<n>>), i + 2>>

(* The loop while its index is in lo..hi, entered at index i >= lo: <<the    *)
(* characters pushed, the index it leaves with>>. The iterations in the     *)
(* lower half of lo..hi come first, those in the upper half follow from     *)
(* the index the lower half leaves with.                                    *)
RECURSIVE unescape_loop(_, _, _, _)
unescape_loop(s, lo, hi, i) ==
    IF i > hi THEN <<(<<>>), i>>
    ELSE IF lo = hi THEN unescape_step(s, i)
    ELSE Only({ Only({ <<lower[1] \o upper[1], upper[2]>>
                     : upper \in {unescape_loop(s, (lo + hi) \div 2 + 1, hi, lower[2])} })
              : lower \in {unescape_loop(s, lo, (lo + hi) \div 2, i)} })

unescape_json_string(s) == unescape_loop(s, 1, Len(s), 1)[1]

(* std::string::find(needle, from): the first index >= from (1-based) at    *)
(* which needle occurs, 0 for npos.                                         *)
occurs_at(hay, needle, k) ==
    /\ k + Len(needle) - 1 <= Len(hay)
    /\ \A j \in 1..Len(needle) : hay[k + j - 1] = needle[j]

find(hay, needle, from) ==
    LET hits == {k \in from..(Len(hay) - Len(needle) + 1) : occurs_at(hay, needle, k)}
    IN  IF hits = {} THEN 0 ELSE Least(hits)

(* "<title", "</title>", "No title found"                                   *)
TitleOpen == <<60, 116, 105, 116, 108, 101>>
TitleClose == <<60, 47, 116, 105, 116, 108, 101, 62>>
NoTitleFound == <<78, 111, 32, 116, 105, 116, 108, 101, 32, 102, 111, 117, 110, 100>>

(* A slip extract_title could have: the title cut from the lowered copy.    *)
extract_title_from_lower(html) ==
    LET lower == to_lower(html)
        start == find(lower, TitleOpen, 1)
        gt == IF start = 0 THEN 0 ELSE find(lower, <<Gt>>, start)
        end == IF gt = 0 THEN 0 ELSE find(lower, TitleClose, gt)
    IN  IF start = 0 \/ gt = 0 \/ end = 0 \/ end <= gt THEN NoTitleFound
        ELSE IF trim(SubSeq(lower, gt + 1, end - 1)) = <<>> THEN NoTitleFound
        ELSE trim(SubSeq(lower, gt + 1, end - 1))

extract_title(html) ==
    LET lower == to_lower(html)
        start == find(lower, TitleOpen, 1)
    IN  IF start = 0 THEN NoTitleFound
        ELSE LET gt == find(lower, <<Gt>>, start)
             IN  IF gt = 0 THEN NoTitleFound
                 ELSE LET end == find(lower, TitleClose, gt)
                      IN  IF end = 0 \/ end <= gt THEN NoTitleFound
                          ELSE LET title == trim(SubSeq(html, gt + 1, end - 1))
                               IN  IF title = <<>> THEN NoTitleFound ELSE title

(* The two regular expressions, matched at position p (1-based). Both are   *)
(* a quoted key, white space, a colon, white space, and a quoted value:     *)
(*   start_re, end_re, country_re: the value is one or more characters      *)
(*     that are not a double quote;                                         *)
(*   extract_json_string_value: the value is any number of items, each a    *)
(*     character that is neither backslash nor double quote, or a           *)
(*     backslash and the character after it.                                *)
(* The white space and the value are greedy; what follows each can match    *)
(* none of the characters they consume, so there is one way to match at p   *)
(* and one place where an attempt at p gets furthest.                       *)
(* std::regex (libstdc++) matches by recursion and returns from none of     *)
(* its levels before the attempt ends. Of the stack below the stack pointer *)
(* at its call, a function that searches therefore needs the largest of     *)
(*   - a floor, which it needs whatever the text: for reading the file,     *)
(*     constructing the regular expressions and setting up a search;        *)
(*   - for every attempt its searches make, one at each position they try:  *)
(*     a frame for each character the attempt consumes on its way (literal  *)
(*     for a character of the key, the colon and the opening quote; space   *)
(*     for a white-space character; plain for a character of an unquoted    *)
(*     value; item for a character and pair for a backslash with the        *)
(*     character after it, in an escaped value) and a constant for the      *)
(*     place where it stops.                                                *)
(* A frame record (FramesO0, FramesO2) holds these numbers for one build;   *)
(* its field ranges is for the three expressions of                         *)
(* build_list_from_asn_json, counted from the call of that function, its    *)
(* field value for the expression of extract_json_string_value, counted     *)
(* from the call of that function. A stack is [room, frame]: the bytes      *)
(* below the stack pointer at the call of build_list_from_asn_json or of    *)
(* parse_zgrab_titles, and the build. The process dies with SIGSEGV in a    *)
(* call that needs more than the room.                                      *)

(* [^"]+ from i on: the index of the first quote, or Len(s) + 1.            *)
scan_unquoted(s, i) ==
    Least({j \in i..Len(s) : s[j] = Quote} \cup {Len(s) + 1})

(* (?:[^\\"]|\\.)* from i on consumes items: a character that is neither a  *)
(* backslash nor a quote, or a backslash with the character after it ('.'   *)
(* matches any character but a line terminator). In a run of backslashes    *)
(* counted from i every second one is the escaped half of a pair, so j is   *)
(* escaped if the backslashes that end just before j are odd in number.     *)
escaped(s, i, j) ==
    /\ j > i
    /\ s[j - 1] = Backslash
    /\ Least({n \in 0..(j - i) : n = j - i \/ s[j - 1 - n] # Backslash}) % 2 = 1

(* The scan stops at the first index that starts no item (a quote, a        *)
(* backslash that is the last character or stands before a line terminator, *)
(* the end of s): that index, and the numbers of characters and of pairs    *)
(* consumed before it.                                                      *)
scan_escaped(s, i) ==
    Only({ Only({ Only({ [stop |-> k,
                          items |-> Cardinality({j \in taken : s[j] # Backslash}),
                          pairs |-> Cardinality({j \in taken : s[j] = Backslash})]
                       : taken \in {{j \in starts : j < k}} })
                : k \in {Least({j \in starts :
                                  \/ j > Len(s)
                                  \/ s[j] = Quote
                                  \/ /\ s[j] = Backslash
                                     /\ (j = Len(s) \/ s[j + 1] \in {10, 13})})} })
         : starts \in {{j \in i..(Len(s) + 1) : ~escaped(s, i, j)}} })

(* The number of characters of qkey that s holds from p on.                 *)
key_prefix(s, qkey, p) ==
    IF p > Len(s) \/ s[p] # qkey[1] THEN 0
    ELSE Greatest({n \in 1..Len(qkey) :
                     \A j \in 2..n : p + j - 1 <= Len(s) /\ s[p + j - 1] = qkey[j]})

(* The attempt at p as far as the opening quote of the value. value is the  *)
(* index of the first character of the value, and need the frames of what   *)
(* has been consumed; or value is 0, the attempt has stopped before the     *)
(* value, and need is what it has needed: the frames of what it consumed    *)
(* and the constant of stops (the ranges or the value field of a frame      *)
(* record) for the place: key_char and key_end for a character that does    *)
(* not fit and for the end of s, in the key or in the white space after it; *)
(* colon_char and colon_end for the same in the white space after the       *)
(* colon, colon_at_end for the end of s right after the colon. (An attempt  *)
(* that stops inside the key is charged the constant of one that stops      *)
(* after it: with the keys of this program it stays below the floor of the  *)
(* function in either build.)                                               *)
key_colon_quote(s, qkey, p, frame, stops) ==
    LET n == key_prefix(s, qkey, p)
        a == trim_start(s, p + Len(qkey))
        at_colon == Len(qkey) * frame.literal + (a - (p + Len(qkey))) * frame.space
        b == trim_start(s, a + 1)
        at_quote == at_colon + frame.literal + (b - (a + 1)) * frame.space
    IN  IF n < Len(qkey)
        THEN [value |-> 0,
              need |-> n * frame.literal
                         + (IF p + n > Len(s) THEN stops.key_end ELSE stops.key_char)]
        ELSE IF a > Len(s) THEN [value |-> 0, need |-> at_colon + stops.key_end]
        ELSE IF s[a] # Colon THEN [value |-> 0, need |-> at_colon + stops.key_char]
        ELSE IF b > Len(s)
        THEN [value |-> 0,
              need |-> at_quote
                         + (IF b = a + 1 THEN stops.colon_at_end ELSE stops.colon_end)]
        ELSE IF s[b] # Quote THEN [value |-> 0, need |-> at_quote + stops.colon_char]
        ELSE [value |-> b + 1, need |-> at_quote + frame.literal]

(* One attempt of start_re, end_re or country_re at p: m is <<first index   *)
(* of the value, index of the closing quote>>, or <<>> for no match at p;   *)
(* need is what the attempt needs. In the value it stops at the closing     *)
(* quote (close: a match), at a quote right after the opening one           *)
(* (open_char), or at the end of s (open_end right after the opening quote, *)
(* run_end after a character of the value).                                 *)
match_plain_at(s, qkey, p, frame) ==
    Only({ IF head.value = 0 THEN [m |-> <<>>, need |-> head.need]
           ELSE Only({ IF k = head.value
                       THEN [m |-> <<>>,
                             need |-> head.need
                                        + (IF k > Len(s) THEN frame.ranges.open_end
                                           ELSE frame.ranges.open_char)]
                       ELSE IF k > Len(s)
                       THEN [m |-> <<>>,
                             need |-> head.need + (k - head.value) * frame.plain
                                        + frame.ranges.run_end]
                       ELSE [m |-> <<head.value, k>>,
                             need |-> head.need + (k - head.value) * frame.plain
                                        + frame.ranges.close]
                     : k \in {scan_unquoted(s, head.value)} })
         : head \in {key_colon_quote(s, qkey, p, frame, frame.ranges)} })

(* One attempt of the expression of extract_json_string_value at p. In the  *)
(* value it stops at the closing quote (close: a match), at the end of s    *)
(* (run_end), at a backslash that is the last character of s (run_escape)   *)
(* or at a backslash before a line terminator (run_line).                   *)
match_escaped_at(s, qkey, p, frame) ==
    Only({ IF head.value = 0 THEN [m |-> <<>>, need |-> head.need]
           ELSE Only({ Only({ IF run.stop > Len(s)
                              THEN [m |-> <<>>, need |-> used + frame.value.run_end]
                              ELSE IF s[run.stop] = Quote
                              THEN [m |-> <<head.value, run.stop>>,
                                    need |-> used + frame.value.close]
                              ELSE IF run.stop = Len(s)
                              THEN [m |-> <<>>, need |-> used + frame.value.run_escape]
                              ELSE [m |-> <<>>, need |-> used + frame.value.run_line]
                            : used \in {head.need + run.items * frame.item
                                          + run.pairs * frame.pair} })
                     : run \in {scan_escaped(s, head.value)} })
         : head \in {key_colon_quote(s, qkey, p, frame, frame.value)} })

(* A search tries the positions from where it starts up to its match, or   *)
(* up to the end of s (that position included) if it has none. Where s      *)
(* does not hold the first character of the key the attempt stops at once:  *)
(* of the positions p..hit, what the attempts at such positions and at the  *)
(* end of s need (stops is the ranges or the value field of a frame         *)
(* record).                                                                 *)
idle_attempts(s, qkey, p, hit, stops) ==
    (IF \E k \in p..hit : k <= Len(s) /\ s[k] # qkey[1] THEN {stops.key_char} ELSE {})
      \cup (IF hit > Len(s) THEN {stops.key_end} ELSE {})

(* std::sregex_iterator from p on: every match, left to right, each search  *)
(* resuming after the previous match. tries are the attempts at the         *)
(* positions that hold the first character of the key, hit the position of  *)
(* the first match (Len(content) + 1 for none). found are the captured      *)
(* groups, need the most an attempt has needed: the searches after the      *)
(* first are made by operator++, whose frame differs from the               *)
(* constructor's by ranges.again.                                           *)
RECURSIVE regex_all(_, _, _, _, _, _)
regex_all(content, qkey, p, found, need, frame) ==
    Only({ Only({ Only({ IF hit > Len(content) THEN [found |-> found, need |-> most]
                         ELSE Only({ regex_all(content, qkey, m[2] + 1,
                                               Append(found, SubSeq(content, m[1], m[2] - 1)),
                                               most, frame)
                                   : m \in {Only({t[2].m : t \in {u \in tries : u[1] = hit}})} })
                       : most \in {Greatest({need} \cup
                                     {n + (IF found = <<>> THEN 0 ELSE frame.ranges.again)
                                        : n \in {t[2].need : t \in {u \in tries : u[1] <= hit}}
                                                  \cup idle_attempts(content, qkey, p, hit,
                                                                     frame.ranges)})} })
                : hit \in {Least({t[1] : t \in {u \in tries : u[2].m # <<>>}}
                                   \cup {Len(content) + 1})} })
         : tries \in {{<<k, match_plain_at(content, qkey, k, frame)>>
                         : k \in {j \in p..Len(content) : content[j] = qkey[1]}}} })

(* "start_ip", "end_ip", "country_name" with their quotes                   *)
StartKey == <<Quote, 115, 116, 97, 114, 116, 95, 105, 112, Quote>>
EndKey == <<Quote, 101, 110, 100, 95, 105, 112, Quote>>
CountryKey == <<Quote, 99, 111, 117, 110, 116, 114, 121, 95, 110, 97, 109, 101, Quote>>

(* The emission loop of build_list_from_asn_json from index i:              *)
(* <<what is written to the list, count>>.                                  *)
RECURSIVE emit_ranges(_, _, _, _, _, _, _)
emit_ranges(starts, ends, countries, country_filter, i, out, count) ==
    IF i > Len(starts) THEN <<out, count>>
    ELSE IF /\ country_filter # <<>>
            /\ (i > Len(countries) \/ to_lower(countries[i]) # to_lower(country_filter))
         THEN emit_ranges(starts, ends, countries, country_filter, i + 1, out, count)
    ELSE IF is_ipv4(starts[i]) /\ is_ipv4(ends[i])
         THEN emit_ranges(starts, ends, countries, country_filter, i + 1,
                          out \o starts[i] \o <<Dash>> \o ends[i] \o <<LF>>, count + 1)
    ELSE emit_ranges(starts, ends, countries, country_filter, i + 1, out, count)

(* build_list_from_asn_json on a readable document and a writable list:     *)
(* need is the stack the call needs (ranges.floor, or what its three        *)
(* iterations over the matches need); crashed if that is more than the      *)
(* room (the process dies before the list file is opened, nothing is        *)
(* returned); otherwise ok is the return value, opened whether the list     *)
(* file was opened (and so truncated), list what it then holds, count the   *)
(* number reported.                                                         *)
build_list_from_asn_json(content, country_filter, stack) ==
    Only({ Only({ IF need > stack.room
                  THEN [ok |-> FALSE, opened |-> FALSE, list |-> <<>>, count |-> 0,
                        crashed |-> TRUE, need |-> need]
                  ELSE IF \/ starts.found = <<>>
                          \/ ends.found = <<>>
                          \/ Len(starts.found) # Len(ends.found)
                  THEN [ok |-> FALSE, opened |-> FALSE, list |-> <<>>, count |-> 0,
                        crashed |-> FALSE, need |-> need]
                  ELSE Only({ [ok |-> written[2] > 0, opened |-> TRUE, list |-> written[1],
                               count |-> written[2], crashed |-> FALSE, need |-> need]
                            : written \in {emit_ranges(starts.found, ends.found,
                                                       countries.found, country_filter,
                                                       1, <<>>, 0)} })
                : need \in {Greatest({stack.frame.ranges.floor, starts.need, ends.need,
                                      countries.need})} })
         : starts \in {regex_all(content, StartKey, 1, <<>>, 0, stack.frame)},
           ends \in {regex_all(content, EndKey, 1, <<>>, 0, stack.frame)},
           countries \in {regex_all(content, CountryKey, 1, <<>>, 0, stack.frame)} })

(* std::regex_search and the unescaping of its group: value is <<>> for     *)
(* nullopt, <<the string>> otherwise. need is the stack the call needs:     *)
(* for constructing the expression, value.regex and value.regex_char for    *)
(* each character of the quoted key, or what an attempt of the search       *)
(* needs.                                                                   *)
extract_json_string_value(line, qkey, frame) ==
    Only({ Only({ [value |-> IF hit > Len(line) THEN <<>>
                             ELSE Only({ <<unescape_json_string(SubSeq(line, m[1], m[2] - 1))>>
                                       : m \in {Only({t[2].m : t \in {u \in tries : u[1] = hit}})} }),
                   need |-> Greatest({frame.value.regex + Len(qkey) * frame.value.regex_char}
                                       \cup {t[2].need : t \in {u \in tries : u[1] <= hit}}
                                       \cup idle_attempts(line, qkey, 1, hit, frame.value))]
                : hit \in {Least({t[1] : t \in {u \in tries : u[2].m # <<>>}}
                                   \cup {Len(line) + 1})} })
         : tries \in {{<<k, match_escaped_at(line, qkey, k, frame)>>
                         : k \in {j \in 1..Len(line) : line[j] = qkey[1]}}} })

(* The quoted keys ip and body; the fixed texts of the report lines:        *)
(* IP: , - No response body found, - Title: .                               *)
IpKey == <<Quote, 105, 112, Quote>>
BodyKey == <<Quote, 98, 111, 100, 121, Quote>>
IpPrefix == <<73, 80, 58, 32>>
NoBodySuffix ==
    <<32, 45, 32, 78, 111, 32, 114, 101, 115, 112, 111, 110, 115, 101, 32,
      98, 111, 100, 121, 32, 102, 111, 117, 110, 100>>
TitleInfix == <<32, 45, 32, 84, 105, 116, 108, 101, 58, 32>>

(* One iteration of parse_zgrab_titles' loop: both fields are extracted     *)
(* before either is looked at. text is what the iteration writes to out,    *)
(* need what it needs, counted from the call of parse_zgrab_titles, whose   *)
(* frame lies above those of the two calls (titles.frame).                  *)
zgrab_line(line, frame) ==
    Only({ [text |-> IF ip.value = <<>> THEN <<>>
                     ELSE IF body.value = <<>>
                     THEN IpPrefix \o ip.value[1] \o NoBodySuffix \o <<LF>>
                     ELSE IpPrefix \o ip.value[1] \o TitleInfix
                            \o extract_title(body.value[1]) \o <<LF>>,
            need |-> frame.titles.frame + Greatest({ip.need, body.need})]
         : ip \in {extract_json_string_value(line, IpKey, frame)},
           body \in {extract_json_string_value(line, BodyKey, frame)} })

(* The loop from line i on: out is what has been written, need what the     *)
(* call has needed so far; the process dies in the first iteration that     *)
(* needs more than the room, having written nothing for its line.           *)
RECURSIVE zgrab_lines(_, _, _, _, _)
zgrab_lines(lines, i, out, need, stack) ==
    IF i > Len(lines) THEN [crashed |-> FALSE, out |-> out, need |-> need]
    ELSE Only({ IF iteration.need > stack.room
                THEN [crashed |-> TRUE, out |-> out, need |-> iteration.need]
                ELSE zgrab_lines(lines, i + 1, out \o iteration.text,
                                 Greatest({need, iteration.need}), stack)
              : iteration \in {zgrab_line(lines[i], stack.frame)} })

(* parse_zgrab_titles on a readable file: what has been written to out when *)
(* it returns, or when the process dies in it; titles.floor is what the     *)
(* call needs for a file without lines.                                     *)
parse_zgrab_titles(content, out, stack) ==
    IF stack.frame.titles.floor > stack.room
    THEN [crashed |-> TRUE, out |-> out, need |-> stack.frame.titles.floor]
    ELSE zgrab_lines(getline_all(content, LF), 1, out, stack.frame.titles.floor, stack)

(* open, tcp, 80, 443                                                       *)
OpenWord == <<111, 112, 101, 110>>
TcpWord == <<116, 99, 112>>
Port80 == <<56, 48>>
Port443 == <<52, 52, 51>>

(* A slip the loop could have: the protocol is not looked at.               *)
masscan_line_any_protocol(line, outs) ==
    LET tokens == split_ws(line)
    IN  IF Len(tokens) >= 4 /\ tokens[1] = OpenWord
        THEN IF tokens[3] = Port80
             THEN [outs EXCEPT !.out80 = @ \o tokens[4] \o <<LF>>, !.count80 = @ + 1]
             ELSE IF tokens[3] = Port443
             THEN [outs EXCEPT !.out443 = @ \o tokens[4] \o <<LF>>, !.count443 = @ + 1]
             ELSE outs
        ELSE outs

(* One iteration of parse_masscan_results' loop.                            *)
masscan_line(line, outs) ==
    LET tokens == split_ws(line)
    IN  IF Len(tokens) >= 4 /\ tokens[1] = OpenWord /\ tokens[2] = TcpWord
        THEN IF tokens[3] = Port80
             THEN [outs EXCEPT !.out80 = @ \o tokens[4] \o <<LF>>, !.count80 = @ + 1]
             ELSE IF tokens[3] = Port443
             THEN [outs EXCEPT !.out443 = @ \o tokens[4] \o <<LF>>, !.count443 = @ + 1]
             ELSE outs
        ELSE outs

RECURSIVE masscan_lines(_, _, _)
masscan_lines(lines, i, outs) ==
    IF i > Len(lines) THEN outs
    ELSE masscan_lines(lines, i + 1, masscan_line(lines[i], outs))

(* parse_masscan_results on a readable scan output and writable            *)
(* destinations: the two files and the two counts printed.                 *)
parse_masscan_results(content) ==
    masscan_lines(getline_all(content, LF), 1,
                  [out80 |-> <<>>, out443 |-> <<>>, count80 |-> 0, count443 |-> 0])

---------------------------------------------------------------------------
(* Inputs of the function-level specifications.                            *)

RECURSIVE Join(_, _)
Join(pieces, sep) ==
    IF pieces = <<>> THEN <<>>
    ELSE IF Len(pieces) = 1 THEN pieces[1]
    ELSE pieces[1] \o <<sep>> \o Join(Tail(pieces), sep)

RECURSIVE Concat(_)
Concat(pieces) ==
    IF pieces = <<>> THEN <<>> ELSE pieces[1] \o Concat(Tail(pieces))

SeqsUpTo(S, n) == UNION {[1..k -> S] : k \in 0..n}

MaxSegs == 5

(* "", "0", "7", "25", "255", "256", "0255", "1a", "1:"                     *)
IpSegments ==
    { <<>>, <<48>>, <<55>>, <<50, 53>>, <<50, 53, 53>>, <<50, 53, 54>>,
      <<48, 50, 53, 53>>, <<49, 97>>, <<49, Colon>> }

(* The bytes of stack libstdc++'s std::regex and the functions that use it *)
(* need in the program as g++ 12.2 builds it for x86-64 without (-O0) and  *)
(* with optimisation (-O2), its symbols bound when it is loaded (with lazy *)
(* binding the first call of a function needs up to 3 KB more for its      *)
(* floor, and no more for a long attempt). ranges is counted from the      *)
(* stack pointer of main at the call of build_list_from_asn_json (the -O2  *)
(* build expands the function in main: from main's stack pointer at that   *)
(* place), value from the stack pointer of parse_zgrab_titles at the call  *)
(* of extract_json_string_value, titles from the stack pointer of main at  *)
(* the call of parse_zgrab_titles; titles.frame is what parse_zgrab_titles *)
(* holds itself when it calls extract_json_string_value.                   *)
FramesO0 ==
    [literal |-> 112, space |-> 304, plain |-> 304, item |-> 416, pair |-> 528,
     ranges |-> [floor |-> 7736, again |-> -64,
                 key_char |-> 3464, key_end |-> 3160,
                 colon_char |-> 3576, colon_end |-> 3272, colon_at_end |-> 3352,
                 open_char |-> 3624, open_end |-> 3464,
                 run_end |-> 3336, close |-> 3968],
     value |-> [regex |-> 4520, regex_char |-> 144,
                key_char |-> 1656, key_end |-> 1352,
                colon_char |-> 1768, colon_end |-> 1464, colon_at_end |-> 1544,
                run_end |-> 1768, run_escape |-> 2120, run_line |-> 2140,
                close |-> 2352],
     titles |-> [floor |-> 1544, frame |-> 832]]
FramesO2 ==
    [literal |-> 144, space |-> 320, plain |-> 320, item |-> 464, pair |-> 464,
     ranges |-> [floor |-> 3944, again |-> -64,
                 key_char |-> 808, key_end |-> 712,
                 colon_char |-> 808, colon_end |-> 712, colon_at_end |-> 712,
                 open_char |-> 776, open_end |-> 680,
                 run_end |-> 680, close |-> 936],
     value |-> [regex |-> 3288, regex_char |-> 96,
                key_char |-> 1448, key_end |-> 1352,
                colon_char |-> 1448, colon_end |-> 1352, colon_at_end |-> 1352,
                run_end |-> 1640, run_escape |-> 1736, run_line |-> 1736,
                close |-> 1752],
     titles |-> [floor |-> 1576, frame |-> 912]]
Builds == {FramesO0, FramesO2}

(* The room of the call stack at the two calls: a shallow stack (48 KiB:   *)
(* about what a stack limit of 64 KB leaves a process at these calls) and  *)
(* one deeper than any text here needs.                                    *)
ShallowStack == 49152
DeepStack == 1000 * ShallowStack
Stacks == {[room |-> r, frame |-> f] : r \in {ShallowStack, DeepStack}, f \in Builds}

mainIdle ==
    /\ pc = "idle"
    /\ cfg = <<>>
    /\ env = <<>>
    /\ files = <<>>
    /\ ran = <<>>
    /\ done = <<>>

InitIPv4 ==
    /\ fn = "is_ipv4"
    /\ \E segs \in SeqsUpTo(IpSegments, MaxSegs) : arg = Join(segs, Dot)
    /\ ret = NoRet
    /\ mainIdle

Call_is_ipv4 ==
    /\ fn = "is_ipv4"
    /\ ret = NoRet
    /\ ret' = <<is_ipv4(arg)>>
    /\ UNCHANGED <<fn, arg, mainVars>>

SpecIPv4 == InitIPv4 /\ [][Call_is_ipv4]_vars

(* The split of s on a delimiter: n delimiters give n+1 segments.          *)
DelimPositions(s, d) == {k \in 1..Len(s) : s[k] = d}

SegmentBounds(s, d) ==
    LET cuts == DelimPositions(s, d) \cup {0, Len(s) + 1}
    IN  { <<a, b>> \in cuts \X cuts :
            a < b /\ ~\E c \in cuts : a < c /\ c < b }

DecimalValue(s, a, b) ==
    LET RECURSIVE val(_)
        val(k) == IF k <= a THEN 0 ELSE 10 * val(k - 1) + (s[k] - 48)
    IN  val(b - 1)

\* C8: is_ipv4(s) is true iff s has no ':' and its split on '.' is exactly 4
\* segments, each non-empty, of 1 to 3 ASCII digits, with a value in [0,255];
\* a leading dot, a trailing dot or two adjacent dots are rejected.
C8_IsIPv4Iff ==
    (fn = "is_ipv4" /\ ret # NoRet) =>
        (ret[1] <=>
            /\ DelimPositions(arg, Colon) = {}
            /\ Cardinality(SegmentBounds(arg, Dot)) = 4
            /\ \A seg \in SegmentBounds(arg, Dot) :
                 /\ seg[2] - seg[1] - 1 \in 1..3
                 /\ \A k \in (seg[1] + 1)..(seg[2] - 1) : arg[k] \in 48..57
                 /\ DecimalValue(arg, seg[1], seg[2]) \in 0..255)

---------------------------------------------------------------------------
MaxPieces == 3

(* a  \  "  \\  \"  \/  \n  \t  \q  \u  \u12  A  é  \uzz41       *)
EscapePieces ==
    { <<97>>, <<Backslash>>, <<Quote>>, <<Backslash, Backslash>>,
      <<Backslash, Quote>>, <<Backslash, Slash>>, <<Backslash, 110>>,
      <<Backslash, 116>>, <<Backslash, 113>>, <<Backslash, 117>>,
      <<Backslash, 117, 49, 50>>, <<Backslash, 117, 48, 48, 52, 49>>,
      <<Backslash, 117, 48, 48, 101, 57>>, <<Backslash, 117, 122, 122, 52, 49>> }

InitUnescape ==
    /\ fn = "unescape_json_string"
    /\ \E segs \in SeqsUpTo(EscapePieces, MaxPieces) : arg = Concat(segs)
    /\ ret = NoRet
    /\ mainIdle

Call_unescape_json_string ==
    /\ fn = "unescape_json_string"
    /\ ret = NoRet
    /\ ret' = <<unescape_json_string(arg)>>
    /\ UNCHANGED <<fn, arg, mainVars>>

SpecUnescape == InitUnescape /\ [][Call_unescape_json_string]_vars

(* The decoder the claim describes, left to right from index i.            *)
ControlOf(n) ==
    CASE n = 98 -> 8 [] n = 102 -> 12 [] n = 110 -> 10 [] n = 114 -> 13 [] n = 116 -> 9

FourHexAt(s, j) == j + 3 <= Len(s) /\ \A k \in j..(j + 3) : ishex(s[k])

CodePointAt(s, j) ==
    4096 * hexval(s[j]) + 256 * hexval(s[j + 1]) + 16 * hexval(s[j + 2]) + hexval(s[j + 3])

RECURSIVE ClaimedUnescape(_, _)
ClaimedUnescape(s, i) ==
    IF i > Len(s) THEN <<>>
    ELSE IF s[i] # Backslash THEN <<s[i]>> \o ClaimedUnescape(s, i + 1)
    ELSE IF i = Len(s) THEN <<Backslash>>
    ELSE IF s[i + 1] \in {Backslash, Quote, Slash}
         THEN <<s[i + 1]>> \o ClaimedUnescape(s, i + 2)
    ELSE IF s[i + 1] \in {98, 102, 110, 114, 116}
         THEN <<ControlOf(s[i + 1])>> \o ClaimedUnescape(s, i + 2)
    ELSE IF s[i + 1] = 117 /\ FourHexAt(s, i + 2)
         THEN <<(IF CodePointAt(s, i + 2) <= 127 THEN CodePointAt(s, i + 2) ELSE Question)>>
              \o ClaimedUnescape(s, i + 6)
    ELSE <<s[i + 1]>> \o ClaimedUnescape(s, i + 2)

\* C9: unescape_json_string decodes left to right: plain characters and a final
\* backslash unchanged; \\ \" \/ literal; \b \f \n \r \t to control characters;
\* \u with 4 hex digits to the ASCII character or '?'; any other escape,
\* \u without 4 hex digits included, to the character after the backslash,
\* consuming two characters.
C9_UnescapeAsClaimed ==
    (fn = "unescape_json_string" /\ ret # NoRet) => ret[1] = ClaimedUnescape(arg, 1)

\* Where C9 does hold: inputs in which every \u is followed by 4 hex digits.
EveryUHasFourHex(s) ==
    LET RECURSIVE ok(_)
        ok(i) == IF i >= Len(s) THEN TRUE
                 ELSE IF s[i] # Backslash THEN ok(i + 1)
                 ELSE IF s[i + 1] = 117 THEN FourHexAt(s, i + 2) /\ ok(i + 6)
                 ELSE ok(i + 2)
    IN  ok(1)

UnescapeAgreesOnWellFormed ==
    (fn = "unescape_json_string" /\ ret # NoRet /\ EveryUHasFourHex(arg))
        => ret[1] = ClaimedUnescape(arg, 1)

---------------------------------------------------------------------------
MaxTitlePieces == 4

(* <title  >  <Title>  </title>  </TITLE>  space  newline  Hi  x           *)
TitlePieces ==
    { TitleOpen, <<Gt>>, <<60, 84, 105, 116, 108, 101, 62>>, TitleClose,
      <<60, 47, 84, 73, 84, 76, 69, 62>>, <<32>>, <<LF>>, <<72, 105>>, <<120>> }

InitTitle ==
    /\ fn = "extract_title"
    /\ \E segs \in SeqsUpTo(TitlePieces, MaxTitlePieces) : arg = Concat(segs)
    /\ ret = NoRet
    /\ mainIdle

Call_extract_title ==
    /\ fn = "extract_title"
    /\ ret = NoRet
    /\ ret' = <<extract_title(arg)>>
    /\ UNCHANGED <<fn, arg, mainVars>>

SpecTitle == InitTitle /\ [][Call_extract_title]_vars

(* Case-insensitive occurrence of an all-lower-case pattern at index k.    *)
OccursNoCase(body, pat, k) ==
    /\ k + Len(pat) - 1 <= Len(body)
    /\ \A j \in 1..Len(pat) :
         body[k + j - 1] = pat[j] \/ (pat[j] \in 97..122 /\ body[k + j - 1] = pat[j] - 32)

IsWhite(c) == c = 32 \/ c \in 9..13

TitleAsClaimed(body) ==
    LET opens == {k \in 1..Len(body) : OccursNoCase(body, TitleOpen, k)}
    IN  IF opens = {} THEN NoTitleFound
        ELSE LET gts == {k \in Least(opens)..Len(body) : body[k] = Gt}
             IN  IF gts = {} THEN NoTitleFound
                 ELSE LET closes == {k \in (Least(gts) + 1)..Len(body) :
                                        OccursNoCase(body, TitleClose, k)}
                      IN  IF closes = {} THEN NoTitleFound
                          ELSE LET inked == {k \in (Least(gts) + 1)..(Least(closes) - 1) :
                                               ~IsWhite(body[k])}
                               IN  IF inked = {} THEN NoTitleFound
                                   ELSE SubSeq(body, Least(inked), Greatest(inked))

\* C10: extract_title returns "No title found" if the body has no
\* case-insensitive "<title", no '>' after the first one, no case-insensitive
\* "</title>" after that '>', or only white space (or nothing) between them;
\* otherwise that text, trimmed, in the body's original letter case.
C10_ExtractTitle ==
    (fn = "extract_title" /\ ret # NoRet) => ret[1] = TitleAsClaimed(arg)

\* A mixed-case tag pair around a title that has white space to trim.
C10_Witness ==
    /\ fn = "extract_title"
    /\ ret = << <<72, 105>> >>
    /\ arg # to_lower(arg)
    /\ \E k \in 1..(Len(arg) - 3) : arg[k] = Gt /\ arg[k + 1] = 32 /\ arg[k + 2] = 72

---------------------------------------------------------------------------
(* ASN documents: up to MaxRecords records, each some of the three fields. *)
MaxRecords == 3

(* A value of LongLen characters: the digit 1, the letter a.               *)
LongLen == 200
LongValue(c) == [i \in 1..LongLen |-> c]

Field(qkey, val) == <<qkey, val>>

(* 1.0.0.0-1.0.0.255 Norway; 2.0.0.0-2.0.0.9 NORWAY; 3.0.0.0-3.0.0.1       *)
(* Sweden; ::1-::2 Norway (IPv6); 5.0.0.0-5.0.0.1 without a country;       *)
(* 6.0.0.0 without an end; an end and a country without a start; a start   *)
(* of LongLen digits with the end 8.0.0.1.                                 *)
AsnRecords ==
    { << Field(StartKey, <<49, 46, 48, 46, 48, 46, 48>>),
         Field(EndKey, <<49, 46, 48, 46, 48, 46, 50, 53, 53>>),
         Field(CountryKey, <<78, 111, 114, 119, 97, 121>>) >>,
      << Field(StartKey, <<50, 46, 48, 46, 48, 46, 48>>),
         Field(EndKey, <<50, 46, 48, 46, 48, 46, 57>>),
         Field(CountryKey, <<78, 79, 82, 87, 65, 89>>) >>,
      << Field(StartKey, <<51, 46, 48, 46, 48, 46, 48>>),
         Field(EndKey, <<51, 46, 48, 46, 48, 46, 49>>),
         Field(CountryKey, <<83, 119, 101, 100, 101, 110>>) >>,
      << Field(StartKey, <<Colon, Colon, 49>>),
         Field(EndKey, <<Colon, Colon, 50>>),
         Field(CountryKey, <<78, 111, 114, 119, 97, 121>>) >>,
      << Field(StartKey, <<53, 46, 48, 46, 48, 46, 48>>),
         Field(EndKey, <<53, 46, 48, 46, 48, 46, 49>>) >>,
      << Field(StartKey, <<54, 46, 48, 46, 48, 46, 48>>) >>,
      << Field(EndKey, <<55, 46, 48, 46, 48, 46, 49>>),
         Field(CountryKey, <<78, 111, 114, 119, 97, 121>>) >>,
      << Field(StartKey, LongValue(49)),
         Field(EndKey, <<56, 46, 48, 46, 48, 46, 49>>),
         Field(CountryKey, <<78, 111, 114, 119, 97, 121>>) >> }

(* no filter, norway, Sweden                                               *)
CountryFilters ==
    { <<>>, <<110, 111, 114, 119, 97, 121>>, <<83, 119, 101, 100, 101, 110>> }

(* The text of a record: {key: value,key: value},newline, with a space     *)
(* after each colon.                                                       *)
FieldText(f) == f[1] \o <<Colon, 32, Quote>> \o f[2] \o <<Quote>>
RecordText(fields) ==
    <<123>> \o Join([i \in 1..Len(fields) |-> FieldText(fields[i])], 44) \o <<125, 44, LF>>
DocumentText(records) ==
    <<91, LF>> \o Concat([i \in 1..Len(records) |-> RecordText(records[i])]) \o <<93, LF>>

InitRanges ==
    /\ fn = "build_list_from_asn_json"
    /\ \E records \in SeqsUpTo(AsnRecords, MaxRecords), filter \in CountryFilters,
          stack \in Stacks :
         arg = [records |-> records, content |-> DocumentText(records),
                country_filter |-> filter, stack |-> stack]
    /\ ret = NoRet
    /\ mainIdle

Call_build_list_from_asn_json ==
    /\ fn = "build_list_from_asn_json"
    /\ ret = NoRet
    /\ ret' = <<build_list_from_asn_json(arg.content, arg.country_filter, arg.stack)>>
    /\ UNCHANGED <<fn, arg, mainVars>>

SpecRanges == InitRanges /\ [][Call_build_list_from_asn_json]_vars

(* The document-order values of one field, from the records the document   *)
(* was written from.                                                       *)
ValuesOf(records, qkey) ==
    LET fields == Concat(records)
        IsKey(f) == f[1] = qkey
        kept == SelectSeq(fields, IsKey)
    IN  [i \in 1..Len(kept) |-> kept[i][2]]

SameIgnoringCase(a, b) ==
    /\ Len(a) = Len(b)
    /\ \A k \in 1..Len(a) :
         (IF a[k] \in 65..90 THEN a[k] + 32 ELSE a[k])
           = (IF b[k] \in 65..90 THEN b[k] + 32 ELSE b[k])

RangesAsClaimed(records, filter) ==
    LET starts == ValuesOf(records, StartKey)
        ends == ValuesOf(records, EndKey)
        countries == ValuesOf(records, CountryKey)
        Selected(i) ==
            /\ filter = <<>> \/ (i <= Len(countries) /\ SameIgnoringCase(countries[i], filter))
            /\ is_ipv4(starts[i])
            /\ is_ipv4(ends[i])
        chosen == SelectSeq([i \in 1..Len(starts) |-> i], Selected)
        lines == [k \in 1..Len(chosen) |->
                    starts[chosen[k]] \o <<Dash>> \o ends[chosen[k]] \o <<LF>>]
    IN  IF starts = <<>> \/ Len(starts) # Len(ends)
        THEN [ok |-> FALSE]
        ELSE [ok |-> Len(chosen) > 0, list |-> Concat(lines), count |-> Len(chosen)]

\* C4: build_list_from_asn_json returns ok = false if there is no start_ip or
\* the numbers of start_ip and end_ip differ; otherwise the list holds, in
\* index order, one line start-end for each index that passes the filter
\* (none set, or a country at that index equal to it ignoring case) and whose
\* two addresses pass is_ipv4; the count is the number of lines and ok is
\* count > 0.
C4_ExtractRanges ==
    (fn = "build_list_from_asn_json" /\ ret # NoRet) =>
        LET claimed == RangesAsClaimed(arg.records, arg.country_filter)
        IN  /\ ~ret[1].crashed
            /\ ret[1].ok = claimed.ok
            /\ "list" \in DOMAIN claimed =>
                 /\ ret[1].opened
                 /\ ret[1].list = claimed.list
                 /\ ret[1].count = claimed.count

---------------------------------------------------------------------------
(* Scanner output: up to MaxScanLines lines.                               *)
MaxScanLines == 3

Words(ws) == Join(ws, 32)
Ip(d) == <<d, Dot, d, Dot, d, Dot, d>>

(* open tcp 80 1.1.1.1 / open tcp 443 2.2.2.2 1700000000 / closed tcp 80   *)
(* 3.3.3.3 / open udp 80 4.4.4.4 / open tcp 80 / the empty line /          *)
(* #masscan / open tcp 80 5.5.5.5 with tabs, runs of blanks and a final    *)
(* carriage return / open tcp 8080 6.6.6.6 / open tcp 443 7.7.7.7          *)
ScanLines ==
    { Words(<<OpenWord, TcpWord, Port80, Ip(49)>>),
      Words(<<OpenWord, TcpWord, Port443, Ip(50), <<49, 55, 48, 48, 48, 48, 48, 48, 48, 48>> >>),
      Words(<<(<<99, 108, 111, 115, 101, 100>>), TcpWord, Port80, Ip(51)>>),
      Words(<<OpenWord, <<117, 100, 112>>, Port80, Ip(52)>>),
      Words(<<OpenWord, TcpWord, Port80>>),
      <<>>,
      <<35, 109, 97, 115, 115, 99, 97, 110>>,
      <<32, 32>> \o OpenWord \o <<9>> \o TcpWord \o <<32, 32>> \o Port80
          \o <<32, 32, 32>> \o Ip(53) \o <<13>>,
      Words(<<OpenWord, TcpWord, <<56, 48, 56, 48>>, Ip(54)>>),
      Words(<<OpenWord, TcpWord, Port443, Ip(55)>>) }

FileOfLines(lines) == Concat([i \in 1..Len(lines) |-> lines[i] \o <<LF>>])

InitSplit ==
    /\ fn = "parse_masscan_results"
    /\ \E lines \in SeqsUpTo(ScanLines, MaxScanLines) :
         arg = [lines |-> lines, content |-> FileOfLines(lines)]
    /\ ret = NoRet
    /\ mainIdle

Call_parse_masscan_results ==
    /\ fn = "parse_masscan_results"
    /\ ret = NoRet
    /\ ret' = <<parse_masscan_results(arg.content)>>
    /\ UNCHANGED <<fn, arg, mainVars>>

SpecSplit == InitSplit /\ [][Call_parse_masscan_results]_vars

(* The white-space-separated tokens of a line: its maximal runs of         *)
(* characters that are not white space, left to right.                     *)
TokenRuns(line) ==
    LET firsts == {a \in 1..Len(line) :
                     ~IsWhite(line[a]) /\ (a = 1 \/ IsWhite(line[a - 1]))}
        LastOf(a) == Least({b \in a..Len(line) :
                              b = Len(line) \/ IsWhite(line[b + 1])})
    IN  { <<a, LastOf(a)>> : a \in firsts }

TokenAt(line, n) ==
    LET runs == TokenRuns(line)
        run == CHOOSE r \in runs : Cardinality({q \in runs : q[1] < r[1]}) = n
    IN  SubSeq(line, run[1], run[2])

HitOn(line, port) ==
    /\ Cardinality(TokenRuns(line)) >= 4
    /\ TokenAt(line, 0) = OpenWord
    /\ TokenAt(line, 1) = TcpWord
    /\ TokenAt(line, 2) = port

PortFileAsClaimed(lines, port) ==
    LET Hit(line) == HitOn(line, port)
        hits == SelectSeq(lines, Hit)
    IN  Concat([i \in 1..Len(hits) |-> TokenAt(hits[i], 3) \o <<LF>>])

\* C5: after parse_masscan_results the port-80 file holds token[3] of each line
\* with at least 4 tokens, token[0] = open, token[1] = tcp, token[2] = 80, one
\* per line in input order, and the port-443 file the same for 443; no other
\* line contributes to either file.
C5_SplitByPort ==
    (fn = "parse_masscan_results" /\ ret # NoRet) =>
        /\ ret[1].out80 = PortFileAsClaimed(arg.lines, Port80)
        /\ ret[1].out443 = PortFileAsClaimed(arg.lines, Port443)

\* A scan with a hit on each port and a line of another protocol.
C5_Witness ==
    /\ fn = "parse_masscan_results"
    /\ ret # NoRet
    /\ Len(arg.lines) = 3
    /\ \E i \in 1..3 : arg.lines[i] = Words(<<OpenWord, <<117, 100, 112>>, Port80, Ip(52)>>)
    /\ ret[1].out80 = Ip(53) \o <<LF>>
    /\ ret[1].out443 = Ip(50) \o <<LF>>

---------------------------------------------------------------------------
(* Grabber output: up to MaxGrabLines records, each written from the ip    *)
(* and body it holds (<<>> for a field it lacks, <<value>> otherwise).     *)
MaxGrabLines == 2

GrabField(qkey, raw) == qkey \o <<Colon, Quote>> \o raw \o <<Quote>>
GrabLine(text, ip, body) == [text |-> text, ip |-> ip, body |-> body]

(* <title>Hi</title>, <title>x</title>, <title>Hi</title> with LongLen     *)
(* letters after it                                                        *)
HiPage == TitleOpen \o <<Gt, 72, 105>> \o TitleClose
XPage == TitleOpen \o <<Gt, 120>> \o TitleClose
LongPage == HiPage \o LongValue(97)

(* The records: ip 1.1.1.1 with the page Hi; ip 2.2.2.2 alone; the page x  *)
(* without an ip; a comment line; ip 3.3.3.3 with the body x and blanks    *)
(* after the colons; ip 4.4.4.4 with an upper-case title holding an        *)
(* escaped quote, an escaped slash and an escaped newline; ip 5.5.5.5      *)
(* with a body whose closing quote is escaped; a numeric ip; ip 6.6.6.6    *)
(* with the long page.                                                     *)
GrabLines ==
    { GrabLine(<<123>> \o GrabField(IpKey, Ip(49)) \o <<44>> \o GrabField(BodyKey, HiPage) \o <<125>>,
               <<Ip(49)>>, <<HiPage>>),
      GrabLine(<<123>> \o GrabField(IpKey, Ip(50)) \o <<125>>, <<Ip(50)>>, <<>>),
      GrabLine(<<123>> \o GrabField(BodyKey, XPage) \o <<125>>, <<>>, <<XPage>>),
      GrabLine(<<35, 32, 100, 111, 110, 101>>, <<>>, <<>>),
      GrabLine(<<123>> \o IpKey \o <<Colon, 32, Quote>> \o Ip(51) \o <<Quote, 44, 32>>
                   \o BodyKey \o <<Colon, 32, Quote, 120, Quote, 125>>,
               <<Ip(51)>>, <<(<<120>>)>>),
      GrabLine(<<123>> \o GrabField(IpKey, Ip(52)) \o <<44>>
                   \o GrabField(BodyKey,
                        <<60, 84, 73, 84, 76, 69, 62, 32, 97, Backslash, Quote, 98, 32,
                          60, Backslash, Slash, 84, 73, 84, 76, 69, 62, Backslash, 110>>)
                   \o <<125>>,
               <<Ip(52)>>,
               << <<60, 84, 73, 84, 76, 69, 62, 32, 97, Quote, 98, 32,
                    60, Slash, 84, 73, 84, 76, 69, 62, LF>> >>),
      GrabLine(<<123>> \o GrabField(IpKey, Ip(53)) \o <<44>> \o BodyKey
                   \o <<Colon, Quote, 98, 97, 100, Backslash, Quote, 125>>,
               <<Ip(53)>>, <<>>),
      GrabLine(<<123>> \o IpKey \o <<Colon, 54, 125>>, <<>>, <<>>),
      GrabLine(<<123>> \o GrabField(IpKey, Ip(54)) \o <<44>> \o GrabField(BodyKey, LongPage)
                   \o <<125>>,
               <<Ip(54)>>, <<LongPage>>) }

(* The sink before the call: empty, or one report line already in it.      *)
SinkContents == { <<>>, IpPrefix \o Ip(57) \o NoBodySuffix \o <<LF>> }

InitTitles ==
    /\ fn = "parse_zgrab_titles"
    /\ \E records \in SeqsUpTo(GrabLines, MaxGrabLines), sink \in SinkContents,
          stack \in Stacks :
         arg = [records |-> records,
                content |-> FileOfLines([i \in 1..Len(records) |-> records[i].text]),
                out |-> sink, stack |-> stack]
    /\ ret = NoRet
    /\ mainIdle

Call_parse_zgrab_titles ==
    /\ fn = "parse_zgrab_titles"
    /\ ret = NoRet
    /\ ret' = <<parse_zgrab_titles(arg.content, arg.out, arg.stack)>>
    /\ UNCHANGED <<fn, arg, mainVars>>

SpecTitles == InitTitles /\ [][Call_parse_zgrab_titles]_vars

ReportLineAsClaimed(record) ==
    IF record.body = <<>>
    THEN IpPrefix \o record.ip[1] \o NoBodySuffix \o <<LF>>
    ELSE IpPrefix \o record.ip[1] \o TitleInfix \o TitleAsClaimed(record.body[1]) \o <<LF>>

ReportAsClaimed(records) ==
    LET HasIp(record) == record.ip # <<>>
        withIp == SelectSeq(records, HasIp)
    IN  Concat([i \in 1..Len(withIp) |-> ReportLineAsClaimed(withIp[i])])

\* C6: parse_zgrab_titles appends to the sink one line per grabber-output line
\* that has an ip, in arrival order, and nothing for the other lines: IP: ip -
\* No response body found for a record without a body, IP: ip - Title: title
\* for one with a body; what the sink held before the call stays in front.
C6_ExtractTitles ==
    (fn = "parse_zgrab_titles" /\ ret # NoRet) =>
        /\ ~ret[1].crashed
        /\ ret[1].out = arg.out \o ReportAsClaimed(arg.records)

---------------------------------------------------------------------------
(* main. The workspace is a function from path to <<>> (no such file) or   *)
(* <<content>>; every path is relative to the current directory.           *)

(* list, masscan_results.txt, open_ips80.txt, open_ips443.txt,             *)
(* zgrab_results_80.json, zgrab_results_443.json, opendomains, .json       *)
ListFile == <<108, 105, 115, 116>>
MasscanOutput ==
    <<109, 97, 115, 115, 99, 97, 110, 95, 114, 101, 115, 117, 108, 116, 115,
      46, 116, 120, 116>>
Open80 == <<111, 112, 101, 110, 95, 105, 112, 115, 56, 48, 46, 116, 120, 116>>
Open443 == <<111, 112, 101, 110, 95, 105, 112, 115, 52, 52, 51, 46, 116, 120, 116>>
Zgrab80 ==
    <<122, 103, 114, 97, 98, 95, 114, 101, 115, 117, 108, 116, 115, 95, 56, 48,
      46, 106, 115, 111, 110>>
Zgrab443 ==
    <<122, 103, 114, 97, 98, 95, 114, 101, 115, 117, 108, 116, 115, 95, 52, 52, 51,
      46, 106, 115, 111, 110>>
OutputFile == <<111, 112, 101, 110, 100, 111, 109, 97, 105, 110, 115>>
JsonExtension == <<Dot, 106, 115, 111, 110>>

(* fs::path::extension: from the last dot of the file name, unless the     *)
(* name is . or .. or its only dot is its first character.                 *)
extension(path) ==
    LET slashes == {k \in 1..Len(path) : path[k] = Slash}
        from == IF slashes = {} THEN 1 ELSE Greatest(slashes) + 1
        name == SubSeq(path, from, Len(path))
        dots == {k \in 1..Len(name) : name[k] = Dot}
    IN  IF dots = {} \/ name = <<Dot>> \/ name = <<Dot, Dot>> \/ Greatest(dots) = 1
        THEN <<>>
        ELSE SubSeq(name, Greatest(dots), Len(name))

exists(fs, path) == path \in DOMAIN fs /\ fs[path] # <<>>

(* fs::equivalent of two relative names in the current directory, the      *)
(* first of which exists: the same file or not.                            *)
equivalent(fs, p1, p2) == exists(fs, p1) /\ exists(fs, p2) /\ p1 = p2

(* The stages of the pipeline, in the order main runs them.                *)
Stages ==
    << "setup", "ensure_masscan", "ensure_zgrab2", "list", "scan", "split",
       "grab80", "grab443", "report", "titles80", "titles443" >>

(* The options of the command line and the defaults of Config.            *)
HelpOpt == <<45, 45, 104, 101, 108, 112>>
HOpt == <<45, 104>>
PortsOpt == <<45, 45, 112, 111, 114, 116, 115>>
RateOpt == <<45, 45, 114, 97, 116, 101>>
NoDownloadOpt == <<45, 45, 110, 111, 45, 100, 111, 119, 110, 108, 111, 97, 100>>
OutputOpt == <<45, 45, 111, 117, 116, 112, 117, 116>>
ListOpt == <<45, 45, 108, 105, 115, 116>>
CountryOpt == <<45, 45, 99, 111, 117, 110, 116, 114, 121>>
OptionPrefix == <<45, 45>>
DefaultPorts == <<56, 48, 44, 52, 52, 51>>
DefaultRate == <<49, 48, 48, 48, 48>>
DefaultConfig ==
    [input |-> <<>>, ports |-> DefaultPorts, rate |-> DefaultRate, list_file |-> ListFile,
     output_file |-> OutputFile, no_download |-> FALSE, list_mode |-> FALSE,
     country_filter |-> <<>>]

(* The loop of parse_args from argument i (argv[0] left out): ok is the    *)
(* return value, cfg the configuration as it then is.                      *)
RECURSIVE parse_args_from(_, _, _)
parse_args_from(argv, i, c) ==
    IF i > Len(argv) THEN [ok |-> c.input # <<>>, cfg |-> c]
    ELSE LET a == argv[i]
             more == i + 1 <= Len(argv)
         IN  IF a = HelpOpt \/ a = HOpt THEN [ok |-> FALSE, cfg |-> c]
             ELSE IF a = PortsOpt /\ more
             THEN parse_args_from(argv, i + 2, [c EXCEPT !.ports = argv[i + 1]])
             ELSE IF a = RateOpt /\ more
             THEN parse_args_from(argv, i + 2, [c EXCEPT !.rate = argv[i + 1]])
             ELSE IF a = NoDownloadOpt
             THEN parse_args_from(argv, i + 1, [c EXCEPT !.no_download = TRUE])
             ELSE IF a = OutputOpt /\ more
             THEN parse_args_from(argv, i + 2, [c EXCEPT !.output_file = argv[i + 1]])
             ELSE IF a = ListOpt
             THEN parse_args_from(argv, i + 1, [c EXCEPT !.list_mode = TRUE])
             ELSE IF a = CountryOpt /\ more
             THEN parse_args_from(argv, i + 2, [c EXCEPT !.country_filter = argv[i + 1]])
             ELSE IF occurs_at(a, OptionPrefix, 1) THEN [ok |-> FALSE, cfg |-> c]
             ELSE IF c.input = <<>>
             THEN parse_args_from(argv, i + 1, [c EXCEPT !.input = a])
             ELSE [ok |-> FALSE, cfg |-> c]

parse_args(argv) ==
    IF Len(argv) < 1 THEN [ok |-> FALSE, cfg |-> DefaultConfig]
    ELSE parse_args_from(argv, 1, DefaultConfig)

(* The inputs given on the command line: 10.0.0.1, list, targets.txt,      *)
(* asn.json, ghost.json (which does not exist); norway; report.txt.        *)
HostInput == <<49, 48, 46, 48, 46, 48, 46, 49>>
TargetsInput == <<116, 97, 114, 103, 101, 116, 115, 46, 116, 120, 116>>
AsnInput == <<97, 115, 110, 46, 106, 115, 111, 110>>
GhostInput == <<103, 104, 111, 115, 116, 46, 106, 115, 111, 110>>
Inputs == { HostInput, ListFile, TargetsInput, AsnInput, GhostInput }
Norway == <<110, 111, 114, 119, 97, 121>>
ReportName == <<114, 101, 112, 111, 114, 116, 46, 116, 120, 116>>

(* The command lines: nothing; an input with some of --list, --country     *)
(* norway, --no-download; an empty input; options before the input; an     *)
(* unknown option, a request for help or a second input after the input;   *)
(* an option without its value; another report, other ports.               *)
CommandLines ==
    { <<input>> \o (IF list THEN <<ListOpt>> ELSE <<>>)
               \o (IF country THEN <<CountryOpt, Norway>> ELSE <<>>)
               \o (IF nodl THEN <<NoDownloadOpt>> ELSE <<>>) :
        input \in Inputs, list \in BOOLEAN, country \in BOOLEAN, nodl \in BOOLEAN }
    \cup { <<>>, <<(<<>>)>>, <<ListOpt>>, <<ListOpt, TargetsInput>>,
           <<HostInput, <<45, 45, 98, 111, 103, 117, 115>>>>, <<HostInput, HelpOpt>>, <<HostInput, HOpt>>,
           <<HostInput, TargetsInput>>, <<HostInput, CountryOpt>>,
           <<HostInput, OutputOpt>>, <<HostInput, OutputOpt, ReportName>>,
           <<HostInput, PortsOpt, Port80, RateOpt, Port443>> }

(* The ASN documents the workspace may hold: a Norwegian, a Swedish and an *)
(* IPv6 record; a Swedish and an IPv6 record; a start without an end; a    *)
(* Norwegian record and the one with the long start.                       *)
AsnDocuments ==
    LET norway == CHOOSE r \in AsnRecords : r[1][2] = <<49, 46, 48, 46, 48, 46, 48>>
        sweden == CHOOSE r \in AsnRecords : r[1][2] = <<51, 46, 48, 46, 48, 46, 48>>
        ipv6 == CHOOSE r \in AsnRecords : r[1][2] = <<Colon, Colon, 49>>
        alone == CHOOSE r \in AsnRecords : Len(r) = 1
        long == CHOOSE r \in AsnRecords : r[1][2] = LongValue(49)
    IN  { DocumentText(<<norway, sweden, ipv6>>), DocumentText(<<sweden, ipv6>>),
          DocumentText(<<sweden, alone>>), DocumentText(<<norway, long>>) }

(* 10.0.0.0/30 and 10.0.1.7, one per line                                 *)
TargetsText ==
    <<49, 48, 46, 48, 46, 48, 46, 48, 47, 51, 48, 10, 49, 48, 46, 48, 46, 49, 46, 55, 10>>

(* What the scanner may write: nothing; a comment and a closed port; a hit *)
(* on port 80 and a short line; hits on both ports and a UDP line.         *)
ScanOutputs ==
    LET line == [n \in {"hit80", "hit443", "closed", "udp", "short", "comment"} |->
                   CHOOSE l \in ScanLines :
                     CASE n = "hit80" -> l = Words(<<OpenWord, TcpWord, Port80, Ip(49)>>)
                       [] n = "hit443" -> l = Words(<<OpenWord, TcpWord, Port443, Ip(55)>>)
                       [] n = "closed" -> Len(l) > 0 /\ l[1] = 99
                       [] n = "udp" -> l = Words(<<OpenWord, <<117, 100, 112>>, Port80, Ip(52)>>)
                       [] n = "short" -> l = Words(<<OpenWord, TcpWord, Port80>>)
                       [] n = "comment" -> Len(l) > 0 /\ l[1] = 35]
    IN  { FileOfLines(<<>>),
          FileOfLines(<<line["comment"], line["closed"]>>),
          FileOfLines(<<line["hit80"], line["short"]>>),
          FileOfLines(<<line["hit80"], line["udp"], line["hit443"]>>) }

(* What a grabber may write: a record with a title, one without a body and *)
(* a comment line; or a record with a body that has no title and the one  *)
(* with the long page.                                                     *)
GrabOutputs ==
    LET text == [n \in {"titled", "bodiless", "comment", "untitled", "long"} |->
                   (CHOOSE g \in GrabLines :
                     CASE n = "titled" -> g.body = <<HiPage>>
                       [] n = "bodiless" -> g.ip = <<Ip(50)>>
                       [] n = "comment" -> Len(g.text) > 0 /\ g.text[1] = 35
                       [] n = "untitled" -> g.body = <<(<<120>>)>>
                       [] n = "long" -> g.body = <<LongPage>>).text]
    IN  { FileOfLines(<<text["titled"], text["bodiless"], text["comment"]>>),
          FileOfLines(<<text["untitled"], text["long"]>>) }

(* What an earlier run left behind.                                        *)
StaleReport == CHOOSE sink \in SinkContents : sink # <<>>
StaleGrab == FileOfLines(<<(CHOOSE g \in GrabLines : g.ip = <<Ip(53)>>).text>>)

Workspaces ==
    { [p \in {ListFile, MasscanOutput, Open80, Open443, Zgrab80, Zgrab443, OutputFile,
              ReportName, TargetsInput, AsnInput} |->
         CASE p = TargetsInput -> <<TargetsText>>
           [] p = AsnInput -> <<doc>>
           [] p = ListFile -> IF stale THEN <<HostInput \o <<LF>> >> ELSE <<>>
           [] p = MasscanOutput -> IF stale THEN <<(<<>>)>> ELSE <<>>
           [] p \in {Open80, Open443} -> IF stale THEN <<Ip(53) \o <<LF>> >> ELSE <<>>
           [] p \in {Zgrab80, Zgrab443} -> IF stale THEN <<StaleGrab>> ELSE <<>>
           [] p = OutputFile -> IF stale THEN <<StaleReport>> ELSE <<>>
           [] p = ReportName -> <<>>]
      : doc \in AsnDocuments, stale \in BOOLEAN }

(* The files that cannot be opened in a run: none, the list, the scan      *)
(* output, one or both of the IP files, the report, one or both of the     *)
(* grabber outputs.                                                        *)
Blockings ==
    { {}, {ListFile}, {MasscanOutput}, {Open80}, {Open443}, {Open80, Open443},
      {OutputFile, ReportName}, {Zgrab80}, {Zgrab443}, {Zgrab80, Zgrab443} }

(* A run meets files that cannot be opened, or has one of the stacks.      *)
Environments ==
    { [blocked |-> b, stack |-> [room |-> DeepStack, frame |-> FramesO0]] :
        b \in Blockings }
      \cup { [blocked |-> {}, stack |-> stack] : stack \in Stacks }

(* done.exit is -1 while main runs. hard and soft collect what happened to *)
(* the run, as the environment saw it: hard are the failures (a missing    *)
(* tool, a command that returned non-zero, a file that could not be        *)
(* opened, an unparsable document, an invalid command line), soft the      *)
(* irregular but valid data.                                               *)
Init ==
    /\ files \in Workspaces
    /\ arg \in CommandLines
    /\ env \in Environments
    /\ fn = "main"
    /\ ret = NoRet
    /\ pc = "parse_args"
    /\ cfg = DefaultConfig
    /\ ran = <<>>
    /\ done = [exit |-> -1, success |-> FALSE, effects |-> {}, hard |-> {}, soft |-> {}]

Ran(stage, result) == Append(ran, [stage |-> stage, result |-> result])

Exit(code, hard) ==
    /\ pc' = "exit"
    /\ done' = [done EXCEPT !.exit = code, !.hard = @ \cup hard]

(* The exit status of a process that dies with SIGSEGV, as a shell shows   *)
(* it: 128 + 11.                                                           *)
Sigsegv == 139

(* main, lines 471-474: parse_args fills cfg; false is exit status 1.      *)
ParseArgs ==
    /\ pc = "parse_args"
    /\ \E r \in {parse_args(arg)} :
         /\ cfg' = r.cfg
         /\ IF r.ok THEN pc' = "setup" /\ UNCHANGED done
            ELSE Exit(1, {"usage"})
    /\ UNCHANGED <<pureVars, env, files, ran>>

(* fs::create_directories of bin and third_party.                          *)
Setup ==
    /\ pc = "setup"
    /\ pc' = "ensure_masscan"
    /\ ran' = Ran("setup", "ok")
    /\ done' = [done EXCEPT !.effects = @ \cup {"mkdir"}]
    /\ UNCHANGED <<pureVars, cfg, env, files>>

(* ensure_masscan, ensure_zgrab2: the tool is found (on PATH or in bin),   *)
(* or it is missing and, unless downloads are disabled, cloned and built,  *)
(* which succeeds or not.                                                  *)
ensure_tool(no_download, found, builds) ==
    IF found THEN [ok |-> TRUE, effects |-> {}]
    ELSE IF no_download THEN [ok |-> FALSE, effects |-> {}]
    ELSE [ok |-> builds, effects |-> {"fetch"}]

Ensure(tool, next) ==
    /\ pc = tool
    /\ \E found \in BOOLEAN, builds \in BOOLEAN :
         LET got == ensure_tool(cfg.no_download, found, builds)
         IN  IF got.ok
             THEN /\ pc' = next
                  /\ ran' = Ran(tool, "ok")
                  /\ done' = [done EXCEPT !.effects = @ \cup got.effects]
             ELSE /\ pc' = "exit"
                  /\ ran' = Ran(tool, "missing")
                  /\ done' = [done EXCEPT !.exit = 1, !.effects = @ \cup got.effects,
                                          !.hard = @ \cup {"tool_missing"}]
    /\ UNCHANGED <<pureVars, cfg, env, files>>

EnsureMasscan == Ensure("ensure_masscan", "ensure_zgrab2")
EnsureZgrab2 == Ensure("ensure_zgrab2", "list")

(* The branch main takes to build the list.                                *)
target_kind(c, fs) ==
    IF exists(fs, c.input)
    THEN IF extension(c.input) = JsonExtension THEN "AsnJson"
         ELSE IF c.country_filter # <<>> THEN "CountryError"
         ELSE IF c.list_mode THEN "ListFile"
         ELSE "SingleHost"
    ELSE IF c.list_mode THEN "ListNotFound"
         ELSE IF c.country_filter # <<>> THEN "CountryError"
         ELSE "SingleHost"

write_single_input_list(fs, list_path, input, blocked) ==
    IF list_path \in blocked
    THEN [ok |-> FALSE, fs |-> fs]
    ELSE [ok |-> TRUE, fs |-> [fs EXCEPT ![list_path] = <<input \o <<LF>> >>]]

(* Lines 491-528: the list is ready, or main returns exit (134: an         *)
(* uncaught filesystem_error of copy_file ends the process by abort), or   *)
(* the process dies in a search of build_list_from_asn_json.               *)
prepare_list(c, fs, e) ==
    LET kind == target_kind(c, fs)
        stop(code, why) ==
            [exit |-> code, fs |-> fs, result |-> why, hard |-> {why}, soft |-> {}]
        go(newfs) ==
            [exit |-> -1, fs |-> newfs, result |-> "ok", hard |-> {}, soft |-> {}]
    IN  CASE kind = "CountryError" -> stop(1, "config_error")
          [] kind = "ListNotFound" -> stop(1, "list_not_found")
          [] kind = "AsnJson" ->
               Only({ IF r.crashed
                      THEN [exit |-> Sigsegv, fs |-> fs, result |-> "crashed",
                            hard |-> {}, soft |-> {}]
                      ELSE IF ~r.opened THEN stop(1, "parse_error")
                      ELSE IF ListFile \in e.blocked THEN stop(1, "list_io")
                      ELSE IF r.ok THEN go([fs EXCEPT ![ListFile] = <<r.list>>])
                      ELSE [exit |-> 1, fs |-> [fs EXCEPT ![ListFile] = <<r.list>>],
                            result |-> "zero_ranges", hard |-> {}, soft |-> {"zero_ranges"}]
                    : r \in {build_list_from_asn_json(fs[c.input][1], c.country_filter,
                                                      e.stack)} })
          [] kind = "ListFile" ->
               IF equivalent(fs, c.input, ListFile) THEN go(fs)
               ELSE IF ListFile \in e.blocked THEN stop(134, "list_io")
               ELSE go([fs EXCEPT ![ListFile] = fs[c.input]])
          [] kind = "SingleHost" ->
               LET w == write_single_input_list(fs, ListFile, c.input, e.blocked)
               IN  IF w.ok THEN go(w.fs) ELSE stop(1, "list_io")

BuildList ==
    /\ pc = "list"
    /\ \E r \in {prepare_list(cfg, files, env)} :
           /\ files' = r.fs
           /\ ran' = Ran("list", r.result)
           /\ pc' = IF r.exit = -1 THEN "scan" ELSE "exit"
           /\ done' = [done EXCEPT !.exit = r.exit, !.hard = @ \cup r.hard,
                                   !.soft = @ \cup r.soft]
    /\ UNCHANGED <<pureVars, cfg, env>>

(* run_command(masscan_cmd): the scanner writes its output and returns 0,  *)
(* or returns non-zero.                                                    *)
RunMasscan ==
    /\ pc = "scan"
    /\ \/ \E out \in ScanOutputs :
            /\ files' = [files EXCEPT ![MasscanOutput] = <<out>>]
            /\ ran' = Ran("scan", "ok")
            /\ pc' = "split"
            /\ UNCHANGED done
       \/ /\ ran' = Ran("scan", "failed")
          /\ Exit(1, {"scan_failed"})
          /\ UNCHANGED files
    /\ UNCHANGED <<pureVars, cfg, env>>

(* parse_masscan_results as main calls it: false if the scan output cannot *)
(* be read; otherwise both destinations are opened, which empties each one *)
(* that can be opened, and false if one of them cannot.                    *)
split_stage(fs, blocked) ==
    LET outs == parse_masscan_results(fs[MasscanOutput][1])
        emptied == [p \in DOMAIN fs |->
                      IF p \in {Open80, Open443} \ blocked THEN <<(<<>>)>> ELSE fs[p]]
    IN  IF MasscanOutput \in blocked \/ ~exists(fs, MasscanOutput)
        THEN [ok |-> FALSE, fs |-> fs]
        ELSE IF {Open80, Open443} \cap blocked # {}
        THEN [ok |-> FALSE, fs |-> emptied]
        ELSE [ok |-> TRUE,
              fs |-> [fs EXCEPT ![Open80] = <<outs.out80>>, ![Open443] = <<outs.out443>>]]

(* What a scan output holds besides hits, as soft irregularities: no hit   *)
(* at all, lines that are skipped (comments, short lines, other states or  *)
(* protocols).                                                             *)
scan_irregularities(content) ==
    LET outs == parse_masscan_results(content)
        hits == outs.count80 + outs.count443
    IN  (IF hits = 0 THEN {"zero_ports"} ELSE {})
          \cup (IF Len(getline_all(content, LF)) > hits
                THEN {"skipped_scan_line"} ELSE {})

Split ==
    /\ pc = "split"
    /\ \E r \in {split_stage(files, env.blocked)},
          soft \in {scan_irregularities(files[MasscanOutput][1])} :
           /\ files' = r.fs
           /\ IF r.ok
              THEN /\ pc' = "grab80"
                   /\ ran' = Ran("split", "ok")
                   /\ done' = [done EXCEPT !.soft = @ \cup soft]
              ELSE /\ pc' = "exit"
                   /\ ran' = Ran("split", "failed")
                   /\ done' = [done EXCEPT !.exit = 1, !.hard = @ \cup {"split_io"},
                                           !.soft = @ \cup soft]
    /\ UNCHANGED <<pureVars, cfg, env>>

(* Lines 547-561: the grabber is run for a port whose IP file is not       *)
(* empty. It writes its output and returns 0, or returns non-zero, having  *)
(* written output or not; main reports a non-zero return and goes on.      *)
Grab(stage, ips, output, next) ==
    /\ pc = stage
    /\ IF Len(files[ips][1]) > 0
       THEN \E out \in GrabOutputs, ok \in BOOLEAN, wrote \in BOOLEAN :
              /\ files' = IF ok \/ wrote THEN [files EXCEPT ![output] = <<out>>] ELSE files
              /\ ran' = Ran(stage, IF ok THEN "ok" ELSE "failed")
              /\ done' = [done EXCEPT !.hard = @ \cup (IF ok THEN {} ELSE {"grab_failed"})]
       ELSE UNCHANGED <<files, ran, done>>
    /\ pc' = next
    /\ UNCHANGED <<pureVars, cfg, env>>

Grab80 == Grab("grab80", Open80, Zgrab80, "grab443")
Grab443 == Grab("grab443", Open443, Zgrab443, "report")

(* std::ofstream out(cfg.output_file): truncates the report. Until main    *)
(* returns, files holds for the report what has been written to out.       *)
OpenReport ==
    /\ pc = "report"
    /\ IF cfg.output_file \in env.blocked
       THEN /\ ran' = Ran("report", "failed")
            /\ Exit(1, {"report_io"})
            /\ UNCHANGED files
       ELSE /\ ran' = Ran("report", "ok")
            /\ files' = [files EXCEPT ![cfg.output_file] = <<(<<>>)>>]
            /\ pc' = "titles80"
            /\ UNCHANGED done
    /\ UNCHANGED <<pureVars, cfg, env>>

(* What the records of a grabber output lack, as soft irregularities.      *)
grab_irregularities(content, stack) ==
    LET lines == getline_all(content, LF)
        ip(i) == extract_json_string_value(lines[i], IpKey, stack.frame).value
        body(i) == extract_json_string_value(lines[i], BodyKey, stack.frame).value
    IN  UNION { IF ip(i) = <<>> THEN {"malformed_grab_line"}
                ELSE IF body(i) = <<>> THEN {"missing_body"}
                ELSE {}
              : i \in 1..Len(lines) }

(* The stream writes to the file when a piece does not fit its buffer or   *)
(* is as long as a chunk: of a text shorter than a chunk nothing is in the *)
(* file when the process dies, of a longer one some part.                  *)
StreamChunk == 1024
flushed(out) ==
    IF Len(out) < StreamChunk THEN { <<>> }
    ELSE { SubSeq(out, 1, n) : n \in 0..Len(out) }

(* Lines 569-574: parse_zgrab_titles on a grabber output that exists; its  *)
(* return value (false if the file cannot be read) is not looked at. The   *)
(* process dies in it if a search exhausts the stack.                      *)
Titles(stage, output, next) ==
    /\ pc = stage
    /\ IF ~exists(files, output)
       THEN pc' = next /\ UNCHANGED <<files, ran, done>>
       ELSE IF output \in env.blocked
       THEN /\ ran' = Ran(stage, "failed")
            /\ done' = [done EXCEPT !.hard = @ \cup {"titles_io"}]
            /\ pc' = next
            /\ UNCHANGED files
       ELSE \E r \in {parse_zgrab_titles(files[output][1], files[cfg.output_file][1],
                                         env.stack)} :
              IF r.crashed
              THEN /\ ran' = Ran(stage, "crashed")
                   /\ \E text \in flushed(r.out) :
                        files' = [files EXCEPT ![cfg.output_file] = <<text>>]
                   /\ pc' = "exit"
                   /\ done' = [done EXCEPT !.exit = Sigsegv]
              ELSE /\ ran' = Ran(stage, "ok")
                   /\ files' = [files EXCEPT ![cfg.output_file] = <<r.out>>]
                   /\ pc' = next
                   /\ done' = [done EXCEPT
                                 !.soft = @ \cup grab_irregularities(files[output][1], env.stack)]
    /\ UNCHANGED <<pureVars, cfg, env>>

Titles80 == Titles("titles80", Zgrab80, "titles443")
Titles443 == Titles("titles443", Zgrab443, "success")

(* std::cout << Success; return 0.                                         *)
Success ==
    /\ pc = "success"
    /\ pc' = "exit"
    /\ done' = [done EXCEPT !.exit = 0, !.success = TRUE]
    /\ UNCHANGED <<pureVars, cfg, env, files, ran>>

Next ==
    \/ ParseArgs
    \/ Setup
    \/ EnsureMasscan
    \/ EnsureZgrab2
    \/ BuildList
    \/ RunMasscan
    \/ Split
    \/ Grab80
    \/ Grab443
    \/ OpenReport
    \/ Titles80
    \/ Titles443
    \/ Success

Spec == Init /\ [][Next]_vars

----------------------------------------------------------------------------
(* The claims about the pipeline driver.                                   *)

LastRan == ran[Len(ran)]

(* C1: a failure at any stage aborts the pipeline: no later stage runs     *)
(* after a failed one, the process ends with a non-zero exit status, and   *)
(* no run with a failed stage ends in Success with exit status 0.          *)
C1_FailureAborts ==
    \A i \in 1..Len(ran) :
        ran[i].result # "ok" =>
            /\ i = Len(ran)
            /\ ~done.success
            /\ pc = "exit" => done.exit # 0

(* C3: a country filter with an input that is not an ASN JSON target ends  *)
(* the run in a configuration error with a non-zero exit status, reported  *)
(* before any directory is created, any tool fetched or built, and any     *)
(* pipeline file written.                                                  *)
C3_CountryErrorBeforeIO ==
    /\ (ran # <<>> /\ LastRan.result = "config_error") =>
            /\ done.exit # 0
            /\ done.effects = {}
    /\ (pc = "exit" /\ cfg.input # <<>> /\ cfg.country_filter # <<>>
          /\ extension(cfg.input) # JsonExtension) => done.exit # 0

(* C2: a run whose only irregularities are soft (zero ranges, zero open    *)
(* ports, records without a body, skipped lines) goes through the          *)
(* remaining stages and exits with status 0.                               *)
C2_SoftNeverFatal ==
    (pc = "exit" /\ done.hard = {}) => (done.exit = 0 /\ done.success)

(* The kind of target the claim gives an input: the extension decides      *)
(* first, then an existing file with list mode, and every other input is a *)
(* single host.                                                            *)
stated_kind(c, fs) ==
    IF extension(c.input) = JsonExtension THEN "AsnJson"
    ELSE IF exists(fs, c.input) /\ c.list_mode THEN "ListFile"
    ELSE "SingleHost"

(* C7: the step of main that builds the list handles the input by its      *)
(* stated kind: for an input with a .json extension main takes the branch  *)
(* of the ASN-range extractor; for an existing file with list mode the     *)
(* list is left as it is if the input is the list, and holds a copy of the *)
(* input otherwise; for every other input the list holds the raw input     *)
(* and one newline; in the last two cases the run goes on to the scan.     *)
(* Left aside, in favour of the claim: an input of the last two kinds      *)
(* given with a country filter (a configuration error), and a list file    *)
(* that cannot be opened for writing (an I/O error).                       *)
C7_TargetKindAsStated ==
    [][ (pc = "list" /\ pc' # "list") =>
          LET stated == stated_kind(cfg, files)
          IN  \/ stated # "AsnJson" /\ cfg.country_filter # <<>>
              \/ ListFile \in env.blocked
              \/ /\ stated = "AsnJson"
                 /\ target_kind(cfg, files) = "AsnJson"
              \/ /\ stated = "ListFile"
                 /\ pc' = "scan"
                 /\ IF equivalent(files, cfg.input, ListFile) THEN files' = files
                    ELSE files' = [files EXCEPT ![ListFile] = files[cfg.input]]
              \/ /\ stated = "SingleHost"
                 /\ pc' = "scan"
                 /\ files' = [files EXCEPT ![ListFile] = <<cfg.input \o <<LF>> >>]
      ]_vars

GrabOf(stage) == IF stage = "titles80" THEN "grab80" ELSE "grab443"

(* C11: every line of the report comes from the current run: titles are    *)
(* extracted from the grabber output of a port only if the grabber was run *)
(* for that port in this run and succeeded, so that a grabber output left  *)
(* by an earlier run or by a failed invocation adds no line to the report. *)
C11_ReportFromCurrentRun ==
    /\ \A i \in 1..Len(ran) :
          ran[i].stage \in {"titles80", "titles443"} =>
              \E j \in 1..(i - 1) :
                  ran[j] = [stage |-> GrabOf(ran[i].stage), result |-> "ok"]
    /\ (done.success
          /\ ~\E j \in 1..Len(ran) :
                 ran[j].stage \in {"grab80", "grab443"} /\ ran[j].result = "ok")
         => files[cfg.output_file] = <<(<<>>)>>

=============================================================================
